---------------------------- MODULE Spec2Model ----------------------------
(***************************************************************************)
(* A model of two parts of the optimizing compiler backend:                *)
(*                                                                         *)
(*   - SrcMap (compiler/compiled_method.h): the source map, a vector of    *)
(*     SrcMapElem (native offset from_, source line to_), with Arrange     *)
(*     and DeltaFormat;                                                    *)
(*   - OptimizingCompiler::Compile / TryCompile                            *)
(*     (compiler/optimizing/optimizing_compiler.cc): the order in which    *)
(*     the stages of one compilation are invoked and how it ends.          *)
(*                                                                         *)
(* Integer width.  from_ is uint32_t, to_ is int32_t and the ordering key  *)
(* is an int64_t.  The model keeps the same layout at a scaled width of    *)
(* WordBits bits per field (the key has 2 * WordBits bits): unsigned       *)
(* values wrap modulo Word, signed values wrap into SMin..SMax.            *)
(***************************************************************************)
EXTENDS Integers, Sequences, FiniteSets, TLC

\* ------------------------------------------------------------------------
\* Bounds of the model
\* ------------------------------------------------------------------------

\* Bits of one SrcMapElem field in the model (32 in the program).
WordBits == 3

\* Longest source map constructed.
MaxLen == 3

\* Native offsets of constructed entries are 0..MaxFrom.
MaxFrom == 1

Word == 2 ^ WordBits

SMin == -(Word \div 2)

SMax == (Word \div 2) - 1

\* uint32_t arithmetic: the result modulo Word.
WrapU(x) == x % Word

\* int32_t arithmetic as two's complement wrap-around into SMin..SMax.
WrapS(x) == ((x - SMin) % Word) + SMin

\* The entries a source map is constructed from.  The source lines are the
\* lowest int32_t, zero and one: the lowest is there so that a difference
\* of two source lines leaves the signed range.
Froms == 0 .. MaxFrom

Tos == {SMin, 0, 1}

Elems == [from : Froms, to : Tos]

\* The arguments DeltaFormat is called with.
Starts == [from : Froms, to : {0, 1}]

HighestPcs == 0 .. (MaxFrom + 1)

\* The source lines FindByTo is called with: those of the constructed
\* entries and two lines no entry has.
FindLines == Tos \cup {-1, 2}

\* ------------------------------------------------------------------------
\* SrcMapElem
\* ------------------------------------------------------------------------

\* explicit operator int64_t(): (static_cast<int64_t>(to_) << 32) | from_.
\* The shift is a multiplication by Word; from_ is unsigned and below Word,
\* so the bitwise or with a multiple of Word is an addition.
ElemKey(e) == (e.to * Word) + e.from

\* bool operator<(const SrcMapElem&)
ElemLess(a, b) == ElemKey(a) < ElemKey(b)

\* bool operator==(const SrcMapElem&)
ElemEq(a, b) == ElemKey(a) = ElemKey(b)

\* The comparator of SortByFrom: lhs.from_ < rhs.from_.
FromLess(a, b) == a.from < b.from

\* ------------------------------------------------------------------------
\* std::sort, std::unique
\* ------------------------------------------------------------------------

\* The rearrangements of s.
PermsOf(s) ==
  IF s = << >> THEN { << >> }
  ELSE { [i \in 1 .. Len(s) |-> s[p[i]]] : p \in Permutations(1 .. Len(s)) }

\* std::sort(begin(), end()): some rearrangement in which no element is
\* operator< an earlier one.  std::sort is not stable, so elements that
\* are equivalent under the comparison may come out in any order.
SortOutcomes(s) ==
  { t \in PermsOf(s) : \A i, j \in 1 .. Len(t) : i < j => ~ElemLess(t[j], t[i]) }

\* SortByFrom(): std::sort with the comparator lhs.from_ < rhs.from_.
SortByFromOutcomes(s) ==
  { t \in PermsOf(s) : \A i, j \in 1 .. Len(t) : i < j => ~FromLess(t[j], t[i]) }

\* std::unique(begin, end) followed by resize: of every run of consecutive
\* elements that are operator== to each other, the first is kept.
RECURSIVE Unique(_)
Unique_KeepAll(s) == s

Unique(s) ==
  IF Len(s) <= 1 THEN s
  ELSE LET r == Unique(Tail(s))
       IN IF ElemEq(Head(s), Head(r)) THEN r ELSE << Head(s) >> \o r

\* std::lower_bound(begin(), end(), v): the binary search over the count
\* elements from position first on (positions from 0, as offsets from
\* begin()); the result is where the search ends, Len(s) being end().
RECURSIVE LowerBoundFrom(_, _, _, _)
LowerBoundFrom(s, v, first, count) ==
  IF count = 0 THEN first
  ELSE LET step == count \div 2
           it == first + step
       IN IF ElemLess(s[it + 1], v)
          THEN LowerBoundFrom(s, v, it + 1, count - (step + 1))
          ELSE LowerBoundFrom(s, v, first, step)

LowerBound_UpperBound(s, v) == Cardinality({ i \in 1 .. Len(s) : ~ElemLess(v, s[i]) })

LowerBound(s, v) == LowerBoundFrom(s, v, 0, Len(s))

\* SrcMapElem({0, to}): the element FindByTo searches for.
FindByToProbe(to) == [from |-> 0, to |-> to]

\* ------------------------------------------------------------------------
\* SrcMap::DeltaFormat, its parts
\* ------------------------------------------------------------------------

\* "get rid of the highest values": the loop runs i from size() - 1 down
\* while i > 0 and stops at the first entry below highest_pc; the vector is
\* resized to i + 1.  Positions are 1-based here, so the result is the new
\* size.
RECURSIVE TrimScan(_, _, _)
TrimScan(t, i, hpc) ==
  IF i > 1 /\ ~(t[i].from < hpc) THEN TrimScan(t, i - 1, hpc) ELSE i

TrimSize(t, hpc) == TrimScan(t, Len(t), hpc)

\* a -= b on SrcMapElem fields: from_ in uint32_t, to_ in int32_t.
ElemMinus(a, b) == [from |-> WrapU(a.from - b.from), to |-> WrapS(a.to - b.to)]

\* The second loop: from the last entry down to the second, each entry has
\* its predecessor subtracted; the predecessor is still absolute then.
Deltas_Ascending(t) ==
  LET d[i \in 1 .. Len(t)] == IF i = 1 THEN t[1] ELSE ElemMinus(t[i], d[i - 1])
  IN d

Deltas(t) ==
  [i \in 1 .. Len(t) |-> IF i = 1 THEN t[1] ELSE ElemMinus(t[i], t[i - 1])]

\* The first entry is made relative to start.
RelativeToStart(t, st) == [t EXCEPT ![1] = ElemMinus(t[1], st)]

\* Everything DeltaFormat(start, highest_pc) can leave in a non-empty vector s:
\* SortByFrom, the trim, the deltas, then the first entry relative to start.
DeltaFormatOutcomes(s, st, hpc) ==
  { RelativeToStart(Deltas(SubSeq(t, 1, TrimSize(t, hpc))), st) :
      t \in SortByFromOutcomes(s) }

\* DCHECK((*this)[0].from_ >= start.from_) on the sorted vector.
DeltaFormatDCheck(s, st) == \A t \in SortByFromOutcomes(s) : t[1].from >= st.from

\* Everything Arrange() can leave in the vector s.
ArrangeOutcomes(s) ==
  IF s = << >> THEN { s } ELSE { Unique(t) : t \in SortOutcomes(s) }

\* ------------------------------------------------------------------------
\* State
\* ------------------------------------------------------------------------

VARIABLES
  \* --- one SrcMap ---
  map,              \* the vector's elements
  input,            \* the elements it was constructed with
  op,               \* the last operation applied to it
  before,           \* the elements before the last operation
  beforeOp,         \* the operation before the last one
  start,            \* DeltaFormat's argument start
  highest_pc,       \* DeltaFormat's argument highest_pc
  find_to,          \* the argument to of the FindByTo whose result is held, else 0
  found,            \* FindByTo's result as an offset from begin(), -1 if none is held
  \* --- one OptimizingCompiler::Compile call ---
  pc,               \* where the call is
  idx,              \* calls made so far within the current straight-line block
  driver_isa,       \* GetCompilerDriver()->GetInstructionSet()
  symbol,           \* the markers dex_compilation_unit.GetSymbol() contains
  supports,         \* RegisterAllocator::Supports(instruction_set)
  instruction_set,  \* TryCompile's local
  shouldCompile,    \* TryCompile's local
  shouldOptimize,   \* TryCompile's local
  graph,            \* TryCompile's local: "unset", "nullptr" or "graph"
  codegen,          \* TryCompile's local: "unset", "nullptr" or "codegen"
  can_allocate,     \* what CanAllocateRegistersFor returned, "unset" before
  src_map_arg,      \* what BuildMappingTable got as its source map
  calls,            \* the collaborators' operations invoked so far, in order
  method,           \* what TryCompile returned, "unset" before
  args,             \* the arguments Compile was called with
  delegate_args,    \* the arguments delegate_->Compile got, "unset" before
  delegate_result,  \* what delegate_->Compile returned, "unset" before
  returned          \* what Compile returned, "unset" before

mapVars == << map, input, op, before, beforeOp, start, highest_pc, find_to, found >>

compileVars ==
  << pc, idx, driver_isa, symbol, supports, instruction_set, shouldCompile,
     shouldOptimize, graph, codegen, can_allocate, src_map_arg, calls, method,
     args, delegate_args, delegate_result, returned >>

vars == << mapVars, compileVars >>

NoElem == [from |-> 0, to |-> 0]

\* No source map is being worked on.
MapIdle ==
  /\ map = << >>
  /\ input = << >>
  /\ op = "none"
  /\ before = << >>
  /\ beforeOp = "none"
  /\ start = NoElem
  /\ highest_pc = 0
  /\ find_to = 0
  /\ found = -1

\* No compilation is going on.
CompileIdle ==
  /\ pc = "idle"
  /\ idx = 0
  /\ driver_isa = "kNone"
  /\ symbol = {}
  /\ supports = FALSE
  /\ instruction_set = "kNone"
  /\ shouldCompile = FALSE
  /\ shouldOptimize = FALSE
  /\ graph = "unset"
  /\ codegen = "unset"
  /\ can_allocate = "unset"
  /\ src_map_arg = "unset"
  /\ calls = << >>
  /\ method = "unset"
  /\ args = "unset"
  /\ delegate_args = "unset"
  /\ delegate_result = "unset"
  /\ returned = "unset"

\* ------------------------------------------------------------------------
\* The source map: construction, Arrange, DeltaFormat
\* ------------------------------------------------------------------------

SrcMaps == UNION { [1 .. n -> Elems] : n \in 0 .. MaxLen }

\* SrcMap(first, last, alloc): the vector holds the given elements.
InitSrcMap ==
  /\ input \in SrcMaps
  /\ map = input
  /\ op = "constructed"
  /\ before = << >>
  /\ beforeOp = "none"
  /\ start = NoElem
  /\ highest_pc = 0
  /\ find_to = 0
  /\ found = -1
  /\ CompileIdle

\* SrcMap& Arrange().  It is applied to a vector of absolute values: a
\* freshly constructed one or one that has been arranged already.  An
\* iterator FindByTo returned earlier does not outlive the sort and resize.
Arrange ==
  /\ op \in {"constructed", "Arrange"}
  /\ \E r \in ArrangeOutcomes(map) : map' = r
  /\ before' = map
  /\ beforeOp' = op
  /\ op' = "Arrange"
  /\ find_to' = 0
  /\ found' = -1
  /\ UNCHANGED << input, start, highest_pc, compileVars >>

\* void DeltaFormat(const SrcMapElem& start, uint32_t highest_pc), applied
\* to a vector of absolute values ("Convert from abs values to deltas").
\* Every constructed vector is tried, the arranged ones among them.  In a
\* debug build the DCHECK aborts the process before the first entry is
\* made relative to start.
DeltaFormat ==
  /\ op = "constructed"
  /\ \E st \in Starts, hpc \in HighestPcs, debug \in BOOLEAN :
       /\ start' = st
       /\ highest_pc' = hpc
       /\ IF map = << >>
          THEN map' = map /\ op' = "DeltaFormat"
          ELSE IF debug /\ ~DeltaFormatDCheck(map, st)
          THEN /\ \E t \in SortByFromOutcomes(map) :
                    map' = Deltas(SubSeq(t, 1, TrimSize(t, hpc)))
               /\ op' = "DeltaFormat:DCHECK"
          ELSE /\ \E r \in DeltaFormatOutcomes(map, st, hpc) : map' = r
               /\ op' = "DeltaFormat"
  /\ before' = map
  /\ beforeOp' = op
  /\ find_to' = 0
  /\ found' = -1
  /\ UNCHANGED << input, compileVars >>

\* const_iterator FindByTo(int32_t to) const, on an arranged vector:
\* std::lower_bound asks for a range ordered by operator<, which is what
\* Arrange leaves.  The vector stays as it is, the iterator is the result.
FindByTo ==
  /\ op = "Arrange"
  /\ \E to \in FindLines :
       /\ find_to' = to
       /\ found' = LowerBound(map, FindByToProbe(to))
  /\ UNCHANGED << map, input, op, before, beforeOp, start, highest_pc, compileVars >>

NextSrcMap == Arrange \/ DeltaFormat \/ FindByTo

SpecSrcMap == InitSrcMap /\ [][NextSrcMap]_vars

\* ------------------------------------------------------------------------
\* OptimizingCompiler::Compile and TryCompile
\* ------------------------------------------------------------------------

\* Methods compiled are told apart by method_idx, 0..MaxMethodIdx.
MaxMethodIdx == 1

\* The values of InstructionSet.
InstructionSets == {"kNone", "kArm", "kArm64", "kThumb2", "kX86", "kX86_64", "kMips"}

\* The testing markers a method's symbol can contain.
OptMarker == "00024opt_00024"

RegMarker == "00024reg_00024"

\* "Do not attempt to compile on architectures we do not support."
IsaAttempted(isa) == isa \in {"kX86", "kX86_64", "kThumb2"}

\* RegisterAllocator::CanAllocateRegistersFor(graph, instruction_set): the
\* architecture-keyed capability check comes first, then the graph decides.
CanAllocateRegistersFor(graph_allocatable) == supports /\ graph_allocatable

\* if (graph == nullptr) { if (shouldCompile) LOG(FATAL) ... }
FatalWithoutGraph_Always == TRUE

FatalWithoutGraph == shouldCompile

\* if (codegen == nullptr) { if (shouldCompile) LOG(FATAL) ... }
FatalWithoutCodegen == shouldCompile

\* else if (shouldOptimize && RegisterAllocator::Supports(instruction_set))
FatalWithoutAllocation_NoSupportsCheck == shouldOptimize

FatalWithoutAllocation_AnyMethod == supports

FatalWithoutAllocation_Never == FALSE

FatalWithoutAllocation == shouldOptimize /\ supports

\* The branch taken when CanAllocateRegistersFor is true, call by call.
OptimizedPath_LoopsBeforeSsa ==
  << "BuildDominatorTree", "FindNaturalLoops", "TransformToSSA", "DumpGraph(ssa)",
     "SsaRedundantPhiElimination.Run", "SsaDeadPhiElimination.Run",
     "SsaLivenessAnalysis.Analyze", "DumpGraph(liveness)",
     "RegisterAllocator.AllocateRegisters", "DumpGraph(register)",
     "CompileOptimized" >>

OptimizedPath_CodegenBeforeLoops ==
  << "BuildDominatorTree", "TransformToSSA", "DumpGraph(ssa)",
     "SsaRedundantPhiElimination.Run", "SsaDeadPhiElimination.Run",
     "SsaLivenessAnalysis.Analyze", "DumpGraph(liveness)",
     "RegisterAllocator.AllocateRegisters", "DumpGraph(register)",
     "CompileOptimized", "FindNaturalLoops" >>

OptimizedPath ==
  << "BuildDominatorTree", "TransformToSSA", "DumpGraph(ssa)", "FindNaturalLoops",
     "SsaRedundantPhiElimination.Run", "SsaDeadPhiElimination.Run",
     "SsaLivenessAnalysis.Analyze", "DumpGraph(liveness)",
     "RegisterAllocator.AllocateRegisters", "DumpGraph(register)",
     "CompileOptimized" >>

\* The last branch, call by call: baseline code generation, then "Run these
\* phases to get some test coverage."
BaselinePath_ThenOptimized ==
  << "CompileBaseline", "BuildDominatorTree", "TransformToSSA", "DumpGraph(ssa)",
     "FindNaturalLoops", "SsaLivenessAnalysis.Analyze", "DumpGraph(liveness)",
     "CompileOptimized" >>

BaselinePath ==
  << "CompileBaseline", "BuildDominatorTree", "TransformToSSA", "DumpGraph(ssa)",
     "FindNaturalLoops", "SsaLivenessAnalysis.Analyze", "DumpGraph(liveness)" >>

\* What follows either branch, call by call.
PackagePath ==
  << "BuildMappingTable", "BuildVMapTable", "BuildNativeGCMap",
     "SwapAllocCompiledMethod" >>

\* if (method != nullptr) in Compile
MethodCompiled_Never == FALSE

MethodCompiled == method # "nullptr"

\* A compiler has been constructed and Compile is called for a method: the
\* driver's instruction set, the method and its symbol, and the register
\* allocator's answer for the instruction set are given.
InitCompile ==
  /\ pc = "Compile"
  /\ idx = 0
  /\ driver_isa \in InstructionSets
  /\ symbol \in SUBSET {OptMarker, RegMarker}
  /\ supports \in BOOLEAN
  /\ instruction_set = "kNone"
  /\ shouldCompile = FALSE
  /\ shouldOptimize = FALSE
  /\ graph = "unset"
  /\ codegen = "unset"
  /\ can_allocate = "unset"
  /\ src_map_arg = "unset"
  /\ calls = << >>
  /\ method = "unset"
  /\ args \in [method_idx : 0 .. MaxMethodIdx]
  /\ delegate_args = "unset"
  /\ delegate_result = "unset"
  /\ returned = "unset"
  /\ MapIdle

\* Compile calls TryCompile with its own arguments.  TryCompile picks the
\* instruction set, returns nullptr for one it does not attempt, and else
\* reads the testing markers off the symbol.
SelectInstructionSet ==
  /\ pc = "Compile"
  /\ LET isa == IF driver_isa = "kArm" THEN "kThumb2" ELSE driver_isa
     IN /\ instruction_set' = isa
        /\ IF ~IsaAttempted(isa)
           THEN /\ method' = "nullptr"
                /\ pc' = "TryCompile:returned"
                /\ UNCHANGED << shouldCompile, shouldOptimize >>
           ELSE /\ shouldCompile' = (OptMarker \in symbol)
                /\ shouldOptimize' = (RegMarker \in symbol)
                /\ pc' = "BuildGraph"
                /\ UNCHANGED method
  /\ UNCHANGED << idx, driver_isa, symbol, supports, graph, codegen, can_allocate,
                  src_map_arg, calls, args, delegate_args, delegate_result,
                  returned, mapVars >>

\* HGraph* graph = builder.BuildGraph(*code_item) and the check of it.
BuildGraph ==
  /\ pc = "BuildGraph"
  /\ calls' = Append(calls, "BuildGraph")
  /\ \E g \in {"nullptr", "graph"} :
       /\ graph' = g
       /\ IF g = "nullptr"
          THEN IF FatalWithoutGraph
               THEN pc' = "aborted" /\ UNCHANGED method
               ELSE pc' = "TryCompile:returned" /\ method' = "nullptr"
          ELSE pc' = "CreateCodeGenerator" /\ UNCHANGED method
  /\ UNCHANGED << idx, driver_isa, symbol, supports, instruction_set, shouldCompile,
                  shouldOptimize, codegen, can_allocate, src_map_arg, args,
                  delegate_args, delegate_result, returned, mapVars >>

\* CodeGenerator* codegen = CodeGenerator::Create(...) and the check of it.
CreateCodeGenerator ==
  /\ pc = "CreateCodeGenerator"
  /\ calls' = Append(calls, "CodeGenerator::Create")
  /\ \E c \in {"nullptr", "codegen"} :
       /\ codegen' = c
       /\ IF c = "nullptr"
          THEN IF FatalWithoutCodegen
               THEN pc' = "aborted" /\ UNCHANGED method
               ELSE pc' = "TryCompile:returned" /\ method' = "nullptr"
          ELSE pc' = "ChooseMode" /\ UNCHANGED method
  /\ UNCHANGED << idx, driver_isa, symbol, supports, instruction_set, shouldCompile,
                  shouldOptimize, graph, can_allocate, src_map_arg, args,
                  delegate_args, delegate_result, returned, mapVars >>

\* visualizer.DumpGraph("builder"), then the three-way branch on
\* CanAllocateRegistersFor and on shouldOptimize && Supports.
ChooseMode ==
  /\ pc = "ChooseMode"
  /\ calls' = calls \o << "DumpGraph(builder)", "CanAllocateRegistersFor" >>
  /\ \E graph_allocatable \in BOOLEAN :
       IF CanAllocateRegistersFor(graph_allocatable)
       THEN can_allocate' = "true" /\ pc' = "optimized"
       ELSE /\ can_allocate' = "false"
            /\ pc' = IF FatalWithoutAllocation THEN "aborted" ELSE "baseline"
  /\ idx' = 0
  /\ UNCHANGED << driver_isa, symbol, supports, instruction_set, shouldCompile,
                  shouldOptimize, graph, codegen, src_map_arg, method, args,
                  delegate_args, delegate_result, returned, mapVars >>

\* The next call of the optimized branch; after the last, the packaging.
RunOptimizedStage ==
  /\ pc = "optimized"
  /\ calls' = Append(calls, OptimizedPath[idx + 1])
  /\ IF idx + 1 = Len(OptimizedPath)
     THEN pc' = "package" /\ idx' = 0
     ELSE pc' = pc /\ idx' = idx + 1
  /\ UNCHANGED << driver_isa, symbol, supports, instruction_set, shouldCompile,
                  shouldOptimize, graph, codegen, can_allocate, src_map_arg, method,
                  args, delegate_args, delegate_result, returned, mapVars >>

\* The next call of the baseline branch; after the last, the packaging.
RunBaselineStage ==
  /\ pc = "baseline"
  /\ calls' = Append(calls, BaselinePath[idx + 1])
  /\ IF idx + 1 = Len(BaselinePath)
     THEN pc' = "package" /\ idx' = 0
     ELSE pc' = pc /\ idx' = idx + 1
  /\ UNCHANGED << driver_isa, symbol, supports, instruction_set, shouldCompile,
                  shouldOptimize, graph, codegen, can_allocate, src_map_arg, method,
                  args, delegate_args, delegate_result, returned, mapVars >>

\* The next call of the packaging.  BuildMappingTable gets the source map
\* only if GetIncludeDebugSymbols(); SwapAllocCompiledMethod's result is
\* what TryCompile returns.
RunPackageStage ==
  /\ pc = "package"
  /\ calls' = Append(calls, PackagePath[idx + 1])
  /\ IF PackagePath[idx + 1] = "BuildMappingTable"
     THEN \E include_debug_symbols \in BOOLEAN :
            src_map_arg' = IF include_debug_symbols THEN "&src_mapping_table" ELSE "nullptr"
     ELSE UNCHANGED src_map_arg
  /\ IF idx + 1 = Len(PackagePath)
     THEN pc' = "TryCompile:returned" /\ idx' = 0 /\ method' = "CompiledMethod"
     ELSE pc' = pc /\ idx' = idx + 1 /\ UNCHANGED method
  /\ UNCHANGED << driver_isa, symbol, supports, instruction_set, shouldCompile,
                  shouldOptimize, graph, codegen, can_allocate, args, delegate_args,
                  delegate_result, returned, mapVars >>

\* Compile after TryCompile has returned: the method if there is one, else
\* whatever delegate_->Compile makes of the same arguments.
CompileReturn ==
  /\ pc = "TryCompile:returned"
  /\ IF MethodCompiled
     THEN /\ returned' = method
          /\ UNCHANGED << calls, delegate_args, delegate_result >>
     ELSE /\ calls' = Append(calls, "delegate.Compile")
          /\ delegate_args' = args
          /\ \E r \in {"nullptr", "QuickCompiledMethod"} :
               delegate_result' = r /\ returned' = r
  /\ pc' = "done"
  /\ UNCHANGED << idx, driver_isa, symbol, supports, instruction_set, shouldCompile,
                  shouldOptimize, graph, codegen, can_allocate, src_map_arg, method,
                  args, mapVars >>

NextCompile ==
  \/ SelectInstructionSet
  \/ BuildGraph
  \/ CreateCodeGenerator
  \/ ChooseMode
  \/ RunOptimizedStage
  \/ RunBaselineStage
  \/ RunPackageStage
  \/ CompileReturn

Spec == InitCompile /\ [][NextCompile]_vars

\* ------------------------------------------------------------------------
\* Properties of Compile and TryCompile
\* ------------------------------------------------------------------------

\* c has been invoked.
Invoked(c) == \E i \in 1 .. Len(calls) : calls[i] = c

\* How often c has been invoked.
TimesInvoked(c) == Cardinality({ i \in 1 .. Len(calls) : calls[i] = c })

\* TryCompile has returned (a fatal abort never returns).
TryCompileReturned == method # "unset"

\* C4: the delegate's Compile is invoked if and only if TryCompile returned
\* nullptr.  With a compiled method from TryCompile, Compile returns that
\* method and the delegate is not called; with nullptr the delegate is
\* called once, with Compile's arguments, and Compile returns its result.
C4_DelegateIffNullptr ==
  /\ Invoked("delegate.Compile") => method = "nullptr"
  /\ TimesInvoked("delegate.Compile") <= 1
  /\ pc = "done" =>
       IF method = "nullptr"
       THEN /\ TimesInvoked("delegate.Compile") = 1
            /\ delegate_args = args
            /\ returned = delegate_result
            /\ delegate_result # "unset"
       ELSE /\ method = "CompiledMethod"
            /\ returned = method
            /\ ~Invoked("delegate.Compile")
            /\ delegate_args = "unset"

\* C4's case: Compile has returned what the delegate made of method 1,
\* after TryCompile gave up on it for want of a graph.
C4_Witness ==
  /\ pc = "done"
  /\ graph = "nullptr"
  /\ method = "nullptr"
  /\ args.method_idx = 1
  /\ returned = "QuickCompiledMethod"

\* The branch at CanAllocateRegistersFor has been reached.
ModeChosen == can_allocate # "unset"

\* C5: when the register allocator does not support the instruction set
\* and a graph and a code generator were obtained, then, whatever markers
\* the method carries, AllocateRegisters and CompileOptimized are never
\* invoked, the run does not abort, and CompileBaseline is invoked.
C5_UnsupportedIsaCompilesBaseline ==
  (~supports /\ graph = "graph" /\ codegen = "codegen") =>
    /\ ~Invoked("RegisterAllocator.AllocateRegisters")
    /\ ~Invoked("CompileOptimized")
    /\ ModeChosen =>
         /\ can_allocate = "false"
         /\ pc \in {"baseline", "package", "TryCompile:returned", "done"}
         /\ (pc # "baseline" \/ idx > 0) => Invoked("CompileBaseline")
    /\ TryCompileReturned => method = "CompiledMethod"

\* C5's case: a method carrying both markers was compiled baseline for an
\* instruction set the register allocator does not support.
C5_Witness ==
  /\ ~supports
  /\ symbol = {OptMarker, RegMarker}
  /\ pc = "done"
  /\ Invoked("CompileBaseline")

\* C6: a method carrying neither marker never ends TryCompile in a fatal
\* abort, whatever the instruction set and whatever BuildGraph,
\* CodeGenerator::Create and the allocator answer: the run goes on until
\* TryCompile returns nullptr or a compiled method.
C6_FatalOnlyWithMarker ==
  (pc # "idle" /\ symbol = {}) =>
    /\ pc # "aborted"
    /\ method \in {"unset", "nullptr", "CompiledMethod"}
    /\ (~TryCompileReturned) => ENABLED NextCompile

\* C6's cases: without a marker, TryCompile returned nullptr because no code
\* generator was found.
C6_Witness ==
  /\ symbol = {}
  /\ codegen = "nullptr"
  /\ method = "nullptr"

\* C7 as claimed: a method carrying the forced-optimize marker whose graph
\* cannot be built, or for whose graph registers cannot be allocated, ends
\* TryCompile in a fatal abort.
C7_Original ==
  (RegMarker \in symbol /\ (graph = "nullptr" \/ can_allocate = "false")) =>
    pc = "aborted"

\* C7, amended: for a method carrying the forced-optimize marker, TryCompile
\* aborts when registers cannot be allocated for the graph although the
\* allocator supports the instruction set.  When the allocator does not
\* support the instruction set, it compiles baseline.  When the graph
\* cannot be built, it aborts if the method also carries the
\* must-compile marker and returns nullptr otherwise.
C7_ForcedOptimizeAbort ==
  RegMarker \in symbol =>
    /\ (can_allocate = "false" /\ supports) => (pc = "aborted" /\ ~TryCompileReturned)
    /\ (can_allocate = "false" /\ ~supports) =>
         (pc # "aborted" /\ (TryCompileReturned => method = "CompiledMethod"))
    /\ (graph = "nullptr" /\ OptMarker \in symbol) => (pc = "aborted" /\ ~TryCompileReturned)
    /\ (graph = "nullptr" /\ OptMarker \notin symbol) =>
         (pc # "aborted" /\ method = "nullptr")

\* C7's case: only the forced-optimize marker, a supported instruction set,
\* and a graph the allocator cannot handle: aborted.
C7_Witness ==
  /\ symbol = {RegMarker}
  /\ supports
  /\ can_allocate = "false"
  /\ pc = "aborted"

\* C8: for a method without the forced-optimize marker, with a graph and a
\* code generator, for which CanAllocateRegistersFor is false, TryCompile
\* compiles baseline and returns a compiled method: no abort, no optimized
\* stage, no nullptr, and Compile does not use the delegate.
C8_AllocFailureFallsBackToBaseline ==
  (RegMarker \notin symbol /\ can_allocate = "false") =>
    /\ pc \in {"baseline", "package", "TryCompile:returned", "done"}
    /\ (pc # "baseline" \/ idx > 0) => Invoked("CompileBaseline")
    /\ ~Invoked("CompileOptimized")
    /\ TryCompileReturned => method = "CompiledMethod"
    /\ ~Invoked("delegate.Compile")
    /\ pc = "done" => returned = "CompiledMethod"

\* C8's case: the allocator supports the instruction set but not the graph
\* of a method marked must-compile only; Compile returned the baseline
\* method.
C8_Witness ==
  /\ symbol = {OptMarker}
  /\ supports
  /\ can_allocate = "false"
  /\ pc = "done"
  /\ returned = "CompiledMethod"

\* The stages of the pipeline, the visualizer's dumps left out.
IsStage(c) ==
  c \in {"BuildDominatorTree", "TransformToSSA", "FindNaturalLoops",
         "SsaRedundantPhiElimination.Run", "SsaDeadPhiElimination.Run",
         "SsaLivenessAnalysis.Analyze", "RegisterAllocator.AllocateRegisters",
         "CompileOptimized", "CompileBaseline"}

StagesInvoked == SelectSeq(calls, IsStage)

IsPrefix(s, t) == Len(s) <= Len(t) /\ s = SubSeq(t, 1, Len(s))

\* The optimized path has run to the end of code generation.
OptimizedDone == can_allocate = "true" /\ pc \in {"package", "TryCompile:returned", "done"}

\* C9 as claimed: on the optimized path the stages run in the order
\* dominator tree, loop finding, SSA conversion, phi simplification,
\* liveness, register allocation, optimized code generation.
C9_Original ==
  can_allocate = "true" =>
    /\ IsPrefix(StagesInvoked,
                << "BuildDominatorTree", "FindNaturalLoops", "TransformToSSA",
                   "SsaRedundantPhiElimination.Run", "SsaDeadPhiElimination.Run",
                   "SsaLivenessAnalysis.Analyze", "RegisterAllocator.AllocateRegisters",
                   "CompileOptimized" >>)
    /\ OptimizedDone => Len(StagesInvoked) = 8

\* C9, amended: on the optimized path the stages run one after the other in
\* the order dominator tree, SSA conversion, loop finding, phi
\* simplification (redundant phis, then dead phis), liveness, register
\* allocation, optimized code generation; TransformToSSA is invoked before
\* FindNaturalLoops.
C9_OptimizedStageOrder ==
  can_allocate = "true" =>
    /\ IsPrefix(StagesInvoked,
                << "BuildDominatorTree", "TransformToSSA", "FindNaturalLoops",
                   "SsaRedundantPhiElimination.Run", "SsaDeadPhiElimination.Run",
                   "SsaLivenessAnalysis.Analyze", "RegisterAllocator.AllocateRegisters",
                   "CompileOptimized" >>)
    /\ OptimizedDone => Len(StagesInvoked) = 8

\* C9's case: the optimized path has generated code.
C9_Witness ==
  /\ OptimizedDone
  /\ Invoked("CompileOptimized")
  /\ method = "CompiledMethod"

\* The stages that change the graph, and the two code generations.
IsGraphMutator(c) ==
  c \in {"BuildDominatorTree", "TransformToSSA", "FindNaturalLoops",
         "SsaRedundantPhiElimination.Run", "SsaDeadPhiElimination.Run"}

IsCodeGeneration(c) == c \in {"CompileOptimized", "CompileBaseline"}

\* The graph-changing stages invoked after c was first invoked, in order.
MutatorsAfter(c) ==
  LET first == CHOOSE i \in 1 .. Len(calls) :
                 calls[i] = c /\ \A j \in 1 .. (i - 1) : calls[j] # c
  IN SelectSeq(SubSeq(calls, first + 1, Len(calls)), IsGraphMutator)

\* C10 as claimed: on either path no graph-changing stage is invoked after
\* code generation has been invoked.
C10_Original ==
  \A i, j \in 1 .. Len(calls) :
    (i < j /\ IsCodeGeneration(calls[i])) => ~IsGraphMutator(calls[j])

\* C10, amended: on the optimized path no graph-changing stage is invoked
\* after CompileOptimized.  On the baseline path BuildDominatorTree,
\* TransformToSSA and FindNaturalLoops, in this order and without phi
\* elimination, are invoked after CompileBaseline, all of them before the
\* mapping table is built.
C10_GraphMutationAfterCodegen ==
  /\ Invoked("CompileOptimized") => MutatorsAfter("CompileOptimized") = << >>
  /\ Invoked("CompileBaseline") =>
       /\ IsPrefix(MutatorsAfter("CompileBaseline"),
                   << "BuildDominatorTree", "TransformToSSA", "FindNaturalLoops" >>)
       /\ Invoked("BuildMappingTable") => Len(MutatorsAfter("CompileBaseline")) = 3
  /\ \A i, j \in 1 .. Len(calls) :
       (i < j /\ calls[i] = "BuildMappingTable") => ~IsGraphMutator(calls[j])

\* C10's case: both outcomes of the amended claim have to be reached; this
\* is the baseline one, with the three stages run after code generation and
\* the compiled method returned.
C10_Witness ==
  /\ Invoked("CompileBaseline")
  /\ Len(MutatorsAfter("CompileBaseline")) = 3
  /\ method = "CompiledMethod"

\* How often code was generated, in either mode.
CodeGenerations == TimesInvoked("CompileBaseline") + TimesInvoked("CompileOptimized")

\* Every call of c comes before every call of d.
AllBefore(c, d) ==
  \A i, j \in 1 .. Len(calls) : (calls[i] = c /\ calls[j] = d) => i < j

\* C11: the two code-generation modes exclude each other within one
\* TryCompile.  A run that returns a compiled method has invoked exactly one
\* of CompileBaseline and CompileOptimized, once, before the mapping, vmap
\* and GC tables were built; a run that returns nullptr has invoked neither.
C11_CodegenModesExclusive ==
  /\ CodeGenerations <= 1
  /\ (Invoked("BuildMappingTable") \/ method = "CompiledMethod") => CodeGenerations = 1
  /\ \A g \in {"CompileBaseline", "CompileOptimized"} :
       \A t \in {"BuildMappingTable", "BuildVMapTable", "BuildNativeGCMap"} :
         AllBefore(g, t)
  /\ method = "CompiledMethod" =>
       /\ TimesInvoked("BuildMappingTable") = 1
       /\ TimesInvoked("BuildVMapTable") = 1
       /\ TimesInvoked("BuildNativeGCMap") = 1
  /\ method = "nullptr" =>
       /\ CodeGenerations = 0
       /\ \/ ~IsaAttempted(instruction_set)
          \/ graph = "nullptr"
          \/ codegen = "nullptr"

\* C11's case: TryCompile has returned a method compiled in baseline mode,
\* the tables built after the one code generation.
C11_Witness ==
  /\ method = "CompiledMethod"
  /\ TimesInvoked("CompileBaseline") = 1
  /\ ~Invoked("CompileOptimized")
  /\ Invoked("BuildNativeGCMap")

\* ------------------------------------------------------------------------
\* Properties of the source map
\* ------------------------------------------------------------------------

\* Source line first, native offset second.
LineThenOffsetLess(a, b) == a.to < b.to \/ (a.to = b.to /\ a.from < b.from)

StrictlyIncreasing(s) ==
  \A i \in 1 .. (Len(s) - 1) : LineThenOffsetLess(s[i], s[i + 1])

\* C1: whatever the source map was constructed with, after Arrange its
\* entries are strictly increasing by (source line, native offset), hence
\* without a duplicate pair, and an Arrange applied right after an Arrange
\* leaves the entries as they were.
C1_ArrangeSortedUniqueIdempotent ==
  op = "Arrange" =>
    /\ StrictlyIncreasing(map)
    /\ beforeOp = "Arrange" => map = before

\* C1's case: a map constructed out of order and with a duplicate pair has
\* been arranged twice and still holds several entries.
C1_Witness ==
  /\ op = "Arrange"
  /\ beforeOp = "Arrange"
  /\ \E i, j \in 1 .. Len(input) : i < j /\ LineThenOffsetLess(input[j], input[i])
  /\ \E i, j \in 1 .. Len(input) : i < j /\ input[i] = input[j]
  /\ Len(map) >= 2

\* a += b on SrcMapElem fields, in the fields' 32-bit types.
ElemPlus(a, b) == [from |-> WrapU(a.from + b.from), to |-> WrapS(a.to + b.to)]

\* The running sums of the entries of d, starting from st.
PrefixSum(st, d) ==
  LET r[i \in 0 .. Len(d)] == IF i = 0 THEN st ELSE ElemPlus(r[i - 1], d[i])
  IN [i \in 1 .. Len(d) |-> r[i]]

\* How often e occurs in s.
Occurrences(e, s) == Cardinality({ i \in 1 .. Len(s) : s[i] = e })

\* The number of entries of s below highest_pc.
BelowCount(s, hpc) == Cardinality({ i \in 1 .. Len(s) : s[i].from < hpc })

\* r holds exactly the entries of s that are below hpc, by ascending offset.
IsTrimmedSortedByFrom(r, s, hpc) ==
  /\ Len(r) = BelowCount(s, hpc)
  /\ \A i \in 1 .. Len(r) : r[i].from < hpc /\ Occurrences(r[i], r) = Occurrences(r[i], s)
  /\ \A i \in 1 .. (Len(r) - 1) : r[i].from <= r[i + 1].from

\* What C2 asks of the map and of DeltaFormat's arguments.
C2_Pre(s, st, hpc) ==
  /\ s # << >>
  /\ \E i \in 1 .. Len(s) : s[i].from < hpc
  /\ \A i \in 1 .. Len(s) : st.from <= s[i].from

\* C2: for a non-empty map with an entry below highest_pc and a start whose
\* native offset is at most every native offset of the map, the running
\* sums from start of what DeltaFormat(start, highest_pc) leaves are exactly
\* the map's entries below highest_pc, in ascending native-offset order.
C2_DeltaFormatRoundTrip ==
  (op = "DeltaFormat" /\ C2_Pre(before, start, highest_pc)) =>
    IsTrimmedSortedByFrom(PrefixSum(start, map), before, highest_pc)

\* C2's case: of three entries one was trimmed, the two kept ones share
\* their native offset but not their line, and a line difference wrapped.
C2_Witness ==
  /\ op = "DeltaFormat"
  /\ C2_Pre(before, start, highest_pc)
  /\ Len(before) = 3
  /\ Len(map) = 2
  /\ map[2].from = 0
  /\ map[2].to # 0
  /\ LET r == PrefixSum(start, map)
     IN \/ r[2].to - r[1].to # map[2].to
        \/ r[1].to - start.to # map[1].to

\* C3: DeltaFormat on a non-empty map leaves as many entries as the map had
\* below highest_pc, none of them made from an entry at or above highest_pc.
C3_DeltaFormatDiscardsAllAtOrAbove ==
  (op = "DeltaFormat" /\ before # << >>) =>
    /\ Len(map) = BelowCount(before, highest_pc)
    /\ \A i \in 1 .. Len(map) : PrefixSum(start, map)[i].from < highest_pc

\* The offset of the first entry of s whose source line is at least line,
\* Len(s) if there is none.
FirstAtOrAbove(s, line) ==
  IF \E i \in 1 .. Len(s) : s[i].to >= line
  THEN (CHOOSE i \in 1 .. Len(s) :
          s[i].to >= line /\ \A j \in 1 .. (i - 1) : s[j].to < line) - 1
  ELSE Len(s)

\* C12: on an arranged map FindByTo(line) returns the position of the first
\* entry whose source line is at least line, the end position if there is
\* none; so when some entry has that very line, the entry returned has it,
\* with the smallest native offset among the entries of that line.
C12_FindByToFirstAtOrAbove ==
  (op = "Arrange" /\ found # -1) =>
    /\ found = FirstAtOrAbove(map, find_to)
    /\ (\E i \in 1 .. Len(map) : map[i].to = find_to) =>
         /\ found < Len(map)
         /\ map[found + 1].to = find_to
         /\ \A i \in 1 .. Len(map) :
              map[i].to = find_to => map[found + 1].from <= map[i].from

\* C12's case: in an arranged map the line searched for is held by two
\* entries, after an entry of a lower line, and the first of the two, at
\* native offset 0, is found.
C12_Witness ==
  /\ op = "Arrange"
  /\ found = 1
  /\ Len(map) = 3
  /\ map[2].to = find_to
  /\ map[3].to = find_to
  /\ map[2].from = 0

=============================================================================
